---------------------------- MODULE Spec2Model ----------------------------
(***************************************************************************)
(* Model of the socket.io chat server of src/index.js: the presence       *)
(* registry (users), the per-room bounded history (messageHistory), the   *)
(* per-connection rate limiter (rateLimitMap) and the event handlers      *)
(* registered on every socket.  Every handler is synchronous JavaScript   *)
(* (no await, no callback), so one handler invocation is one atomic step. *)
(*                                                                         *)
(* Texts (usernames, room names, message bodies, socket ids) are          *)
(* sequences of one-character strings, so that sanitizeInput can be       *)
(* computed character by character as the code does.                      *)
(***************************************************************************)
EXTENDS Integers, Sequences, FiniteSets, TLC

\* ------------------------------------------------------------------------
\* Program constants
\* ------------------------------------------------------------------------
RATE_LIMIT_MAX == 10
RATE_LIMIT_WINDOW == 10000
HistoryCap == 100
MaxTextLen == 500
MinUsernameLen == 2

\* ------------------------------------------------------------------------
\* Bounds of the model
\* ------------------------------------------------------------------------
\* The clock advances in steps of TickStep ms, at most MaxTicks times.
TickStep == 5000
MaxTicks == 2
\* Admitted messages (chat + private) in the general specification.
MaxMsgs == 1
\* Admitted chat messages in the chat specification.
MaxChatMsgs == 3
\* Admitted messages of the single sender in the rate-limiter specification,
\* of which at most MaxRatePrivate are private messages.
MaxRateMsgs == 11
MaxRatePrivate == 1
\* Messages already in the history of "general" in the replay specification,
\* and messages admitted after them.
PrefillLen == 99
MaxReplayMsgs == 3
\* Admitted private messages in the private-message specification.
MaxPrivateMsgs == 2
\* Admitted chat messages in the sanitizing specification, and the length of
\* the short texts sent there.
MaxSanitizeMsgs == 1
MaxShortLen == 3

\* ------------------------------------------------------------------------
\* Values of the JavaScript world
\* ------------------------------------------------------------------------
\* Any value v with typeof v !== 'string' (undefined, a number, an object).
NotAString == <<"undefined">>
\* A handler invoked with no payload (data is undefined or null).
Missing == [missing |-> TRUE]
\* data.f : undefined when the payload has no such property.
Prop(data, f) == IF f \in DOMAIN data THEN data[f] ELSE NotAString

General == <<"g", "e", "n", "e", "r", "a", "l">>
Tech == <<"t", "e", "c", "h">>
Al == <<"a", "l">>
Bo == <<"b", "o">>

\* Socket ids are texts too: socket.io puts every socket in a room named by
\* its own id, and io.to(targetSocketId) addresses that room.
c1 == <<"c", "1">>
c2 == <<"c", "2">>
c3 == <<"c", "3">>
SocketIds == {c1, c2, c3}

\* A JavaScript Map: a function whose domain is the set of keys present.
EmptyMap == [k \in {} |-> {}]
\* Mutant: set drops every other key.
Put_Only(m, k, v) == [x \in {k} |-> v]
Put(m, k, v) == [x \in (DOMAIN m) \cup {k} |-> IF x = k THEN v ELSE m[x]]
\* Mutant: delete removes nothing.
Delete_Kept(m, k) == m
Delete(m, k) == [x \in (DOMAIN m) \ {k} |-> m[x]]

\* m.get(k) || []
GetOrEmpty(m, k) == IF k \in DOMAIN m THEN m[k] ELSE <<>>

\* ------------------------------------------------------------------------
\* sanitizeInput
\* ------------------------------------------------------------------------
Whitespace == {" ", "\t", "\n", "\r"}

\* String.prototype.replace(/ch/g, rep): every occurrence, left to right.
RECURSIVE ReplaceAll(_, _, _)
ReplaceAll(s, ch, rep) ==
    IF Len(s) = 0 THEN <<>>
    ELSE IF Len(s) = 1 THEN (IF s[1] = ch THEN rep ELSE s)
    ELSE LET h == Len(s) \div 2
         IN  ReplaceAll(SubSeq(s, 1, h), ch, rep)
                 \o ReplaceAll(SubSeq(s, h + 1, Len(s)), ch, rep)

\* Mutant: nothing is trimmed.
Trim_None(s) == s

\* String.prototype.trim()
Trim(s) ==
    LET keep == {i \in 1..Len(s) : s[i] \notin Whitespace}
    IN  IF keep = {} THEN <<>>
        ELSE SubSeq(s, CHOOSE i \in keep : \A j \in keep : i <= j,
                       CHOOSE i \in keep : \A j \in keep : i >= j)

\* String.prototype.substring(0, n)
Substring0(s, n) == SubSeq(s, 1, IF Len(s) < n THEN Len(s) ELSE n)

\* Mutant: the slash is not escaped.
EscapeHtml_NoSlash(text) ==
    LET s1 == ReplaceAll(text, "&", <<"&", "a", "m", "p", ";">>)
        s2 == ReplaceAll(s1, "<", <<"&", "l", "t", ";">>)
        s3 == ReplaceAll(s2, ">", <<"&", "g", "t", ";">>)
        s4 == ReplaceAll(s3, "\"", <<"&", "q", "u", "o", "t", ";">>)
    IN  ReplaceAll(s4, "'", <<"&", "#", "x", "2", "7", ";">>)

EscapeHtml(text) ==
    LET s1 == ReplaceAll(text, "&", <<"&", "a", "m", "p", ";">>)
        s2 == ReplaceAll(s1, "<", <<"&", "l", "t", ";">>)
        s3 == ReplaceAll(s2, ">", <<"&", "g", "t", ";">>)
        s4 == ReplaceAll(s3, "\"", <<"&", "q", "u", "o", "t", ";">>)
        s5 == ReplaceAll(s4, "'", <<"&", "#", "x", "2", "7", ";">>)
    IN  ReplaceAll(s5, "/", <<"&", "#", "x", "2", "F", ";">>)

sanitizeInput(text) ==
    IF text = NotAString THEN <<>>
    ELSE Substring0(Trim(EscapeHtml(text)), MaxTextLen)

\* ------------------------------------------------------------------------
\* Rate limiter
\* ------------------------------------------------------------------------
\* rateLimitMap.get(socketId) || []
Timestamps(map, socketId) == GetOrEmpty(map, socketId)

\* Mutant: a timestamp exactly RATE_LIMIT_WINDOW ms old is still counted.
RecentTimestamps_Le(map, socketId, t) ==
    SelectSeq(Timestamps(map, socketId), LAMBDA time : t - time <= RATE_LIMIT_WINDOW)

\* timestamps.filter(time => now - time < RATE_LIMIT_WINDOW)
RecentTimestamps(map, socketId, t) ==
    SelectSeq(Timestamps(map, socketId), LAMBDA time : t - time < RATE_LIMIT_WINDOW)

\* Mutant: the limit compared with > instead of >=.
isRateLimited_Gt(map, socketId, t) ==
    Len(RecentTimestamps(map, socketId, t)) > RATE_LIMIT_MAX

\* The value isRateLimited returns when called at clock reading t ...
isRateLimited(map, socketId, t) ==
    Len(RecentTimestamps(map, socketId, t)) >= RATE_LIMIT_MAX

\* Mutant: the sweep of isRateLimited stores an empty window.
SweptRateLimitMap_Cleared(map, socketId, t) == Put(map, socketId, <<>>)

\* ... and the map it leaves behind (the sweep is stored on every call).
SweptRateLimitMap(map, socketId, t) ==
    Put(map, socketId, RecentTimestamps(map, socketId, t))

\* Mutant: the timestamp is put at the front of the window.
addRateLimitTimestamp_Unshift(map, socketId, t) ==
    Put(map, socketId, <<t>> \o Timestamps(map, socketId))

addRateLimitTimestamp(map, socketId, t) ==
    Put(map, socketId, Append(Timestamps(map, socketId), t))

\* Mutant: the windows of the other sockets are deleted, not the socket's.
CleanRateLimit_Others(map, socketId) ==
    [x \in (DOMAIN map) \cap {socketId} |-> map[x]]

\* Mutant: the window of a departed socket is kept.
CleanRateLimit_Kept(map, socketId) == map

\* rateLimitMap.delete(socket.id), the last statement of the disconnect handler
CleanRateLimit(map, socketId) == Delete(map, socketId)

\* ------------------------------------------------------------------------
\* Presence registry
\* ------------------------------------------------------------------------
\* Mutant: the room filter is dropped, every registered user is listed.
getUsersInRoom_NoFilter(us, room) ==
    {[username |-> us[s].username, socketId |-> s] : s \in DOMAIN us}

\* The order of the list (Map iteration order) is left out: the entries are
\* a set of {username, socketId} objects.
getUsersInRoom(us, room) ==
    {[username |-> us[s].username, socketId |-> s] :
        s \in {x \in DOMAIN us : us[x].room = room}}

\* Mutant: the name is compared in every room but the one asked for.
isUsernameAvailable_OtherRooms(us, username, room) ==
    ~ \E s \in DOMAIN us : us[s].username = username /\ us[s].room # room

\* Mutant: the check is dropped, every name is available.
isUsernameAvailable_Always(us, username, room) == TRUE

isUsernameAvailable(us, username, room) ==
    ~ \E s \in DOMAIN us : us[s].username = username /\ us[s].room = room

\* ------------------------------------------------------------------------
\* Room history
\* ------------------------------------------------------------------------
\* Mutant: the newest message first (the array reversed).
getMessageHistory_Reversed(hist, room) ==
    LET h == GetOrEmpty(hist, room)
    IN  [i \in 1..Len(h) |-> h[Len(h) + 1 - i]]

\* Mutant: no history is returned.
getMessageHistory_Empty(hist, room) == <<>>

getMessageHistory(hist, room) == GetOrEmpty(hist, room)

\* Mutant: the cap compared with > instead of >=.
addMessageToHistory_Gt(hist, room, message) ==
    LET history == GetOrEmpty(hist, room)
        kept == IF Len(history) > HistoryCap THEN Tail(history) ELSE history
    IN  Put(hist, room, Append(kept, message))

\* Mutant: the message is put at the front (unshift for push).
addMessageToHistory_Unshift(hist, room, message) ==
    LET history == GetOrEmpty(hist, room)
        kept == IF Len(history) >= HistoryCap THEN Tail(history) ELSE history
    IN  Put(hist, room, <<message>> \o kept)

addMessageToHistory(hist, room, message) ==
    LET history == GetOrEmpty(hist, room)
        kept == IF Len(history) >= HistoryCap THEN Tail(history) ELSE history
    IN  Put(hist, room, Append(kept, message))


\* ------------------------------------------------------------------------
\* State
\* ------------------------------------------------------------------------
VARIABLES
    users,          \* Map socket.id -> {username, room, socketId}
    messageHistory, \* Map room -> array of messages
    rateLimitMap,   \* Map socket.id -> array of timestamps
    status,         \* per socket: "idle" (not yet connected), "open", "closed"
    channels,       \* per socket: the transport rooms it is in (socket.rooms)
    now,            \* Date.now(), in ms since the server started
    crashed,        \* an exception escaped a handler: the process is gone
    emitted,        \* what the last handler emitted, in order
    last,           \* the event the last step handled
    appended,       \* per room, every message ever passed to addMessageToHistory
    received,       \* per socket, the received_message events delivered to it
                    \* since its transport rooms last changed
    admitted        \* per socket, the messages it got admitted: time and kind

vars == <<users, messageHistory, rateLimitMap, status, channels, now, crashed,
          emitted, last, appended, received, admitted>>

Emit(event, to, payload) == [event |-> event, to |-> to, payload |-> payload]

Event(handler, socket, data) == [handler |-> handler, socket |-> socket, data |-> data]

\* io.to(room): the open sockets that are in the transport room.
Recipients(st, ch, room) == {s \in SocketIds : st[s] = "open" /\ room \in ch[s]}

\* socket.to(room): the room, except the sockets in the room named socket.id
\* (socket.io 4 excludes the sender as the room of its id).
Broadcast(st, ch, socket, room) == Recipients(st, ch, room) \ Recipients(st, ch, socket)

\* socket.emit("error", {message})
EmitError(socket, message) == <<Emit("error", {socket}, message)>>

SystemMessage(text, username, t, room) ==
    [type |-> "system", message |-> text, username |-> username,
     timestamp |-> t, room |-> room]

Init ==
    /\ users = EmptyMap
    /\ messageHistory = EmptyMap
    /\ rateLimitMap = EmptyMap
    /\ status = [s \in SocketIds |-> "idle"]
    /\ channels = [s \in SocketIds |-> {}]
    /\ now = 0
    /\ crashed = FALSE
    /\ emitted = <<>>
    /\ last = Event("start", c1, Missing)
    /\ appended = EmptyMap
    /\ received = [s \in SocketIds |-> <<>>]
    /\ admitted = [s \in SocketIds |-> <<>>]

\* ------------------------------------------------------------------------
\* The clock and the transport
\* ------------------------------------------------------------------------
Tick ==
    /\ ~crashed
    /\ now' = now + TickStep
    /\ emitted' = <<>>
    /\ last' = Event("tick", c1, Missing)
    /\ UNCHANGED <<users, messageHistory, rateLimitMap, status, channels, crashed,
                   appended, received, admitted>>

\* io.on("connection"): the handlers are registered; the transport has put
\* the socket in the room named by its id.
Connect(socket) ==
    /\ ~crashed
    /\ status[socket] = "idle"
    /\ status' = [status EXCEPT ![socket] = "open"]
    /\ channels' = [channels EXCEPT ![socket] = {socket}]
    /\ emitted' = <<>>
    /\ last' = Event("connection", socket, Missing)
    /\ UNCHANGED <<users, messageHistory, rateLimitMap, now, crashed,
                   appended, received, admitted>>

\* ------------------------------------------------------------------------
\* socket.on("join")
\* ------------------------------------------------------------------------
JoinRoomOf(data) ==
    LET room == sanitizeInput(Prop(data, "room"))
    IN  IF room = <<>> THEN General ELSE room

Join(socket, data) ==
    /\ ~crashed
    /\ status[socket] = "open"
    /\ last' = Event("join", socket, data)
    /\ UNCHANGED <<messageHistory, rateLimitMap, status, now, crashed, appended, admitted>>
    /\ IF data = Missing
       THEN \* data.username throws a TypeError, caught by the handler
            /\ emitted' = EmitError(socket, "Erreur lors de la connexion au chat")
            /\ UNCHANGED <<users, channels, received>>
       ELSE LET username == sanitizeInput(Prop(data, "username"))
                room == JoinRoomOf(data)
            IN  IF Len(username) < MinUsernameLen
                THEN /\ emitted' = EmitError(socket,
                            "Le nom d'utilisateur doit contenir au moins 2 caracteres")
                     /\ UNCHANGED <<users, channels, received>>
                ELSE IF ~isUsernameAvailable(users, username, room)
                THEN /\ emitted' = EmitError(socket,
                            "Ce nom d'utilisateur est deja pris dans cette salle")
                     /\ UNCHANGED <<users, channels, received>>
                ELSE LET ch == [channels EXCEPT ![socket] = @ \cup {room}]
                         us == Put(users, socket,
                                   [username |-> username, room |-> room, socketId |-> socket])
                         usersInRoom == getUsersInRoom(us, room)
                     IN  /\ channels' = ch
                         /\ users' = us
                         /\ received' = [received EXCEPT ![socket] = <<>>]
                         /\ emitted' =
                              << Emit("message_history", {socket},
                                      getMessageHistory(messageHistory, room)),
                                 Emit("user_joined", Recipients(status, ch, room),
                                      SystemMessage("a rejoint le chat", username, now, room)),
                                 Emit("users_list", Recipients(status, ch, room), usersInRoom),
                                 Emit("join_success", {socket},
                                      [username |-> username, room |-> room,
                                       usersCount |-> Cardinality(usersInRoom)]) >>

\* ------------------------------------------------------------------------
\* socket.on("chat_message")
\* ------------------------------------------------------------------------
\* drift: what the clock advanced between the reading of isRateLimited and
\* the readings of addRateLimitTimestamp and of the message's timestamp.
ChatMessage(socket, data, drift) ==
    /\ ~crashed
    /\ status[socket] = "open"
    /\ last' = Event("chat_message", socket, data)
    /\ UNCHANGED <<users, status, channels, crashed>>
    /\ IF socket \notin DOMAIN users
       THEN /\ emitted' = EmitError(socket, "Vous devez d'abord rejoindre un salon")
            /\ UNCHANGED <<messageHistory, rateLimitMap, now, appended, received, admitted>>
       ELSE LET user == users[socket]
                swept == SweptRateLimitMap(rateLimitMap, socket, now)
            IN  IF isRateLimited(rateLimitMap, socket, now)
                THEN /\ emitted' = EmitError(socket,
                            "Vous envoyez trop de messages. Veuillez patienter.")
                     /\ rateLimitMap' = swept
                     /\ UNCHANGED <<messageHistory, now, appended, received, admitted>>
                ELSE IF data = Missing
                THEN \* data.message throws a TypeError, caught by the handler
                     /\ emitted' = EmitError(socket, "Erreur lors de l'envoi du message")
                     /\ rateLimitMap' = swept
                     /\ UNCHANGED <<messageHistory, now, appended, received, admitted>>
                ELSE LET message == sanitizeInput(Prop(data, "message"))
                     IN  IF Len(message) = 0
                         THEN /\ emitted' = <<>>
                              /\ rateLimitMap' = swept
                              /\ UNCHANGED <<messageHistory, now, appended, received, admitted>>
                         ELSE LET t == now + drift
                                  messageObject ==
                                      [type |-> "user", username |-> user.username,
                                       message |-> message, timestamp |-> t,
                                       room |-> user.room, socketId |-> socket]
                                  to == Recipients(status, channels, user.room)
                              IN  /\ now' = t
                                  /\ rateLimitMap' = addRateLimitTimestamp(swept, socket, t)
                                  /\ messageHistory' =
                                        addMessageToHistory(messageHistory, user.room, messageObject)
                                  /\ emitted' = <<Emit("received_message", to, messageObject)>>
                                  /\ appended' = Put(appended, user.room,
                                        Append(GetOrEmpty(appended, user.room), messageObject))
                                  /\ received' = [s \in SocketIds |->
                                        IF s \in to THEN Append(received[s], messageObject)
                                        ELSE received[s]]
                                  /\ admitted' = [admitted EXCEPT ![socket] =
                                        Append(@, [time |-> t, kind |-> "chat"])]

\* ------------------------------------------------------------------------
\* socket.on("private_message")
\* ------------------------------------------------------------------------
PrivateMessage(socket, data, drift) ==
    /\ ~crashed
    /\ status[socket] = "open"
    /\ last' = Event("private_message", socket, data)
    /\ UNCHANGED <<users, messageHistory, status, channels, crashed, appended, received>>
    /\ IF socket \notin DOMAIN users
       THEN /\ emitted' = EmitError(socket, "Vous devez d'abord rejoindre un salon")
            /\ UNCHANGED <<rateLimitMap, now, admitted>>
       ELSE IF data = Missing
       THEN \* data.message throws a TypeError, caught by the handler
            /\ emitted' = EmitError(socket, "Erreur lors de l'envoi du message prive")
            /\ UNCHANGED <<rateLimitMap, now, admitted>>
       ELSE LET sender == users[socket]
                message == sanitizeInput(Prop(data, "message"))
                targetSocketId == Prop(data, "targetSocketId")
            IN  IF targetSocketId \notin DOMAIN users
                THEN /\ emitted' = EmitError(socket, "Destinataire introuvable")
                     /\ UNCHANGED <<rateLimitMap, now, admitted>>
                ELSE IF isRateLimited(rateLimitMap, socket, now)
                THEN /\ emitted' = EmitError(socket,
                            "Vous envoyez trop de messages. Veuillez patienter.")
                     /\ rateLimitMap' = SweptRateLimitMap(rateLimitMap, socket, now)
                     /\ UNCHANGED <<now, admitted>>
                ELSE LET t == now + drift
                         recipient == users[targetSocketId]
                         privateMessage ==
                             [type |-> "private", from |-> sender.username,
                              to |-> recipient.username, message |-> message,
                              timestamp |-> t, fromSocketId |-> socket,
                              toSocketId |-> targetSocketId]
                     IN  /\ now' = t
                         /\ rateLimitMap' = addRateLimitTimestamp(
                                SweptRateLimitMap(rateLimitMap, socket, now), socket, t)
                         /\ emitted' =
                              << Emit("private_message_received",
                                      Recipients(status, channels, targetSocketId),
                                      privateMessage),
                                 Emit("private_message_sent", {socket}, privateMessage) >>
                         /\ admitted' = [admitted EXCEPT ![socket] =
                                Append(@, [time |-> t, kind |-> "private"])]

\* ------------------------------------------------------------------------
\* socket.on("typing")
\* ------------------------------------------------------------------------
\* The handler has no try/catch: with no payload, data.isTyping throws a
\* TypeError out of the listener, which nothing catches.
Typing(socket, data) ==
    /\ ~crashed
    /\ status[socket] = "open"
    /\ last' = Event("typing", socket, data)
    /\ UNCHANGED <<users, messageHistory, rateLimitMap, status, channels, now,
                   appended, received, admitted>>
    /\ IF socket \notin DOMAIN users
       THEN /\ emitted' = <<>>
            /\ UNCHANGED crashed
       ELSE IF data = Missing
       THEN /\ emitted' = <<>>
            /\ crashed' = TRUE
       ELSE LET user == users[socket]
            IN  /\ emitted' =
                     << Emit("user_typing",
                             Broadcast(status, channels, socket, user.room),
                             [username |-> user.username, isTyping |-> data.isTyping]) >>
                /\ UNCHANGED crashed

\* ------------------------------------------------------------------------
\* socket.on("change_room")
\* ------------------------------------------------------------------------
ChangeRoom(socket, data) ==
    /\ ~crashed
    /\ status[socket] = "open"
    /\ last' = Event("change_room", socket, data)
    /\ UNCHANGED <<messageHistory, rateLimitMap, status, now, crashed, appended, admitted>>
    /\ IF socket \notin DOMAIN users
       THEN /\ emitted' = <<>>
            /\ UNCHANGED <<users, channels, received>>
       ELSE IF data = Missing
       THEN \* data.room throws a TypeError, caught by the handler
            /\ emitted' = EmitError(socket, "Erreur lors du changement de salle")
            /\ UNCHANGED <<users, channels, received>>
       ELSE LET user == users[socket]
                newRoom == JoinRoomOf(data)
                oldRoom == user.room
            IN  IF oldRoom = newRoom
                THEN /\ emitted' = <<>>
                     /\ UNCHANGED <<users, channels, received>>
                ELSE LET left == [channels EXCEPT ![socket] = @ \ {oldRoom}]
                         ch == [left EXCEPT ![socket] = @ \cup {newRoom}]
                         us == Put(users, socket, [user EXCEPT !.room = newRoom])
                         usersInRoom == getUsersInRoom(us, newRoom)
                     IN  /\ channels' = ch
                         /\ users' = us
                         /\ received' = [received EXCEPT ![socket] = <<>>]
                         /\ emitted' =
                              << Emit("user_left", Recipients(status, left, oldRoom),
                                      SystemMessage("a quitte la salle", user.username,
                                                    now, oldRoom)),
                                 \* the list is computed before user.room is updated
                                 Emit("users_list", Recipients(status, left, oldRoom),
                                      getUsersInRoom(users, oldRoom)),
                                 Emit("message_history", {socket},
                                      getMessageHistory(messageHistory, newRoom)),
                                 Emit("user_joined", Recipients(status, ch, newRoom),
                                      SystemMessage("a rejoint la salle", user.username,
                                                    now, newRoom)),
                                 Emit("users_list", Recipients(status, ch, newRoom),
                                      usersInRoom),
                                 Emit("room_changed", {socket},
                                      [room |-> newRoom,
                                       usersCount |-> Cardinality(usersInRoom)]) >>

\* ------------------------------------------------------------------------
\* socket.on("disconnect")
\* ------------------------------------------------------------------------
\* The transport has taken the socket out of all its rooms before the
\* listener runs.  The listener may be run again on a closed socket.
Disconnect(socket) ==
    /\ ~crashed
    /\ status[socket] # "idle"
    /\ last' = Event("disconnect", socket, Missing)
    /\ status' = [status EXCEPT ![socket] = "closed"]
    /\ channels' = [channels EXCEPT ![socket] = {}]
    /\ received' = [received EXCEPT ![socket] = <<>>]
    /\ rateLimitMap' = CleanRateLimit(rateLimitMap, socket)
    /\ UNCHANGED <<messageHistory, now, crashed, appended, admitted>>
    /\ IF socket \in DOMAIN users
       THEN LET user == users[socket]
                us == Delete(users, socket)
            IN  /\ users' = us
                /\ emitted' =
                     << Emit("user_left", Recipients(status', channels', user.room),
                             SystemMessage("a quitte le chat", user.username,
                                           now, user.room)),
                        Emit("users_list", Recipients(status', channels', user.room),
                             getUsersInRoom(us, user.room)) >>
       ELSE /\ emitted' = <<>>
            /\ UNCHANGED users

\* ------------------------------------------------------------------------
\* socket.on("get_users"), socket.on("get_rooms")
\* ------------------------------------------------------------------------
GetUsers(socket) ==
    /\ ~crashed
    /\ status[socket] = "open"
    /\ last' = Event("get_users", socket, Missing)
    /\ emitted' = IF socket \in DOMAIN users
                  THEN <<Emit("users_list", {socket},
                              getUsersInRoom(users, users[socket].room))>>
                  ELSE <<>>
    /\ UNCHANGED <<users, messageHistory, rateLimitMap, status, channels, now, crashed,
                   appended, received, admitted>>

\* The directory: one {name, usersCount} per room that has a user.
RoomsList(us) ==
    {[name |-> r, usersCount |-> Cardinality({s \in DOMAIN us : us[s].room = r})] :
        r \in {us[s].room : s \in DOMAIN us}}

GetRooms(socket) ==
    /\ ~crashed
    /\ status[socket] = "open"
    /\ last' = Event("get_rooms", socket, Missing)
    /\ emitted' = <<Emit("rooms_list", {socket}, RoomsList(users))>>
    /\ UNCHANGED <<users, messageHistory, rateLimitMap, status, channels, now, crashed,
                   appended, received, admitted>>

\* ------------------------------------------------------------------------
\* The general specification: every handler, on every socket
\* ------------------------------------------------------------------------
JoinPayloads ==
    { Missing,
      [username |-> Al, room |-> Tech],
      [username |-> <<" ", "a", "l">>],
      [username |-> Bo, room |-> NotAString],
      [username |-> <<"a">>, room |-> Tech] }

Lt == <<"<">>
Blank == <<" ">>

ChatPayloads == { Missing, [message |-> Lt], [message |-> Blank] }

PrivatePayloads ==
    { Missing } \cup { [message |-> Lt, targetSocketId |-> t] : t \in {c1, c2} }

TypingPayloads == { Missing, [isTyping |-> TRUE] }

RoomPayloads == { Missing, [room |-> Tech], [room |-> <<>>] }

AdmittedCount == Len(admitted[c1]) + Len(admitted[c2]) + Len(admitted[c3])

\* The sockets that connect in the general specification.
Sockets == {c1, c2}

\* The clock stands still in the general specification (the rate-limiter
\* specification below is the one about time).
Next ==
    \/ \E s \in Sockets : Connect(s)
    \/ \E s \in Sockets, data \in JoinPayloads : Join(s, data)
    \/ \E s \in Sockets, data \in ChatPayloads :
            AdmittedCount < MaxMsgs /\ ChatMessage(s, data, 0)
    \/ \E s \in Sockets, data \in PrivatePayloads :
            AdmittedCount < MaxMsgs /\ PrivateMessage(s, data, 0)
    \/ \E s \in Sockets, data \in TypingPayloads : Typing(s, data)
    \/ \E s \in Sockets, data \in RoomPayloads : ChangeRoom(s, data)
    \/ \E s \in Sockets : Disconnect(s)
    \/ \E s \in Sockets : GetUsers(s)
    \/ \E s \in Sockets : GetRooms(s)

Spec == Init /\ [][Next]_vars

\* ------------------------------------------------------------------------
\* The rate-limiter specification: one socket sends chat and private
\* messages (to itself) while the clock advances
\* ------------------------------------------------------------------------
Drifts == {0, TickStep}

ClockBound == MaxTicks * TickStep

PrivateCount(s) == Len(SelectSeq(admitted[s], LAMBDA a : a.kind = "private"))

NextRate ==
    \/ (now + TickStep <= ClockBound /\ Tick)
    \/ Connect(c1)
    \/ Join(c1, [username |-> Al])
    \/ \E data \in {[message |-> Lt], [message |-> Blank]}, d \in Drifts :
            /\ Len(admitted[c1]) < MaxRateMsgs
            /\ now + d <= ClockBound
            /\ ChatMessage(c1, data, d)
    \/ \E d \in Drifts :
            /\ Len(admitted[c1]) < MaxRateMsgs
            /\ PrivateCount(c1) < MaxRatePrivate
            /\ now + d <= ClockBound
            /\ PrivateMessage(c1, [message |-> Lt, targetSocketId |-> c1], d)

SpecRate == Init /\ [][NextRate]_vars

\* ------------------------------------------------------------------------
\* C3
\* ------------------------------------------------------------------------
RateLimitError(socket) ==
    EmitError(socket, "Vous envoyez trop de messages. Veuillez patienter.")

\* C3: for every connection, chat and private messages counted together, no
\* more than RATE_LIMIT_MAX messages are admitted within any rolling window of
\* RATE_LIMIT_WINDOW ms (any RATE_LIMIT_MAX + 1 admitted messages of one
\* connection span at least the window); a message that finds the window full
\* yields the error, and only the admitted chat messages are in the history.
C3_AtMostTenPerWindow ==
    \A s \in SocketIds :
        /\ \A i \in 1..Len(admitted[s]) : \A j \in 1..Len(admitted[s]) :
              j >= i + RATE_LIMIT_MAX =>
                  admitted[s][j].time - admitted[s][i].time >= RATE_LIMIT_WINDOW
        /\ (/\ last.handler \in {"chat_message", "private_message"}
            /\ last.socket = s
            /\ emitted = RateLimitError(s))
            => /\ Len(admitted[s]) >= RATE_LIMIT_MAX
               /\ now - admitted[s][Len(admitted[s]) - RATE_LIMIT_MAX + 1].time
                      < RATE_LIMIT_WINDOW
        /\ Len(SelectSeq(admitted[s], LAMBDA a : a.kind = "chat"))
              = Len(SelectSeq(GetOrEmpty(appended, General),
                              LAMBDA m : m.socketId = s))

\* An eleventh message inside the window was refused, and, the window over,
\* an eleventh message has been admitted.
C3_Witness ==
    /\ Len(admitted[c1]) = RATE_LIMIT_MAX + 1
    /\ PrivateCount(c1) = 1
    /\ admitted[c1][RATE_LIMIT_MAX + 1].time - admitted[c1][1].time = RATE_LIMIT_WINDOW

\* ------------------------------------------------------------------------
\* C1
\* ------------------------------------------------------------------------
\* C1: in every reachable state no two registered users of the same room
\* have equal usernames.
C1_UniqueUsernamesPerRoom ==
    \A s \in DOMAIN users : \A t \in DOMAIN users :
        (s # t /\ users[s].room = users[t].room)
            => users[s].username # users[t].username

\* ------------------------------------------------------------------------
\* C4
\* ------------------------------------------------------------------------
StoredState == <<users, messageHistory, rateLimitMap, status, channels>>

\* C4: once the disconnect handler has run for a socket, the socket has no
\* entry in users, appears in no room's user list and has no rate-limiter
\* window; running the handler again changes nothing and emits nothing.
C4_DisconnectPurges ==
    /\ [](\A s \in SocketIds : status[s] = "closed" =>
            /\ s \notin DOMAIN users
            /\ s \notin DOMAIN rateLimitMap
            /\ \A room \in {General, Tech} \cup SocketIds :
                  \A u \in getUsersInRoom(users, room) : u.socketId # s)
    /\ [][\A s \in SocketIds :
            (status[s] = "closed" /\ last'.handler = "disconnect" /\ last'.socket = s)
                => (emitted' = <<>> /\ UNCHANGED StoredState)]_vars

\* A joined socket that had a rate window has disconnected, and its room was told.
C4_Witness ==
    /\ last.handler = "disconnect"
    /\ last.socket = c1
    /\ Len(admitted[c1]) = 1
    /\ Len(emitted) = 2
    /\ status[c1] = "closed"
    /\ c1 \notin DOMAIN users
    /\ c1 \notin DOMAIN rateLimitMap
    /\ c2 \in DOMAIN rateLimitMap

\* ------------------------------------------------------------------------
\* C5
\* ------------------------------------------------------------------------
NameTakenError(socket) ==
    EmitError(socket, "Ce nom d'utilisateur est deja pris dans cette salle")

\* C5: a join that asks for a (sanitized) username which another socket has
\* registered in the same room is refused in the same step: the asking socket
\* gets the error, and the registry and the transport rooms are unchanged, so
\* of two sockets joining one room under one name at most one is registered.
C5_JoinCheckAndRegisterAtomic ==
    [][\A s \in SocketIds :
        (/\ last'.handler = "join"
         /\ last'.socket = s
         /\ last'.data # Missing
         /\ \E t \in DOMAIN users \ {s} :
               /\ users[t].username = sanitizeInput(Prop(last'.data, "username"))
               /\ users[t].room = JoinRoomOf(last'.data))
        => (/\ emitted' = NameTakenError(s)
            /\ UNCHANGED <<users, channels>>)]_vars

\* c2 asked for the name al in tech, which c1 holds there, and stays unregistered.
C5_Witness ==
    /\ last = Event("join", c2, [username |-> Al, room |-> Tech])
    /\ emitted = NameTakenError(c2)
    /\ c1 \in DOMAIN users
    /\ users[c1].username = Al
    /\ users[c1].room = Tech
    /\ c2 \notin DOMAIN users

\* ------------------------------------------------------------------------
\* C7
\* ------------------------------------------------------------------------
PayloadHandlers == {"join", "chat_message", "private_message", "typing", "change_room"}

\* C7: no handler lets an exception escape, whatever the payload; a handler
\* run with a missing payload emits nothing but an error to the triggering
\* socket and leaves the registry, the histories and the rate windows (the
\* timestamps held for each socket) alone.
C7_HandlersTrapFailures ==
    /\ [](~crashed)
    /\ [][(last'.handler \in PayloadHandlers /\ last'.data = Missing)
            => /\ \A i \in 1..Len(emitted') :
                    emitted'[i].event = "error" /\ emitted'[i].to = {last'.socket}
               /\ UNCHANGED <<users, messageHistory>>
               /\ \A s \in SocketIds :
                    Timestamps(rateLimitMap', s) = Timestamps(rateLimitMap, s)]_vars

\* ------------------------------------------------------------------------
\* C8
\* ------------------------------------------------------------------------
\* The last step moved last.socket from one room to another.
RoomChanged ==
    /\ last.handler = "change_room"
    /\ Len(emitted) = 6

\* C8: on a change of room, the users_list sent to the room left lists
\* exactly the users that remain registered in that room, so not the one
\* who left.
C8_OldRoomListIsUpdated ==
    RoomChanged =>
        LET oldRoom == emitted[1].payload.room
        IN  /\ emitted[1].event = "user_left"
            /\ emitted[2].event = "users_list"
            /\ emitted[2].payload = getUsersInRoom(users, oldRoom)
            /\ \A u \in emitted[2].payload : u.socketId # last.socket

\* ------------------------------------------------------------------------
\* C10
\* ------------------------------------------------------------------------
\* The last step was a join that succeeded.
Joined ==
    /\ last.handler = "join"
    /\ Len(emitted) = 4

RegisteredIn(room) == {s \in DOMAIN users : users[s].room = room}

\* C10: a successful join of socket c into room R has registered c and
\* emitted, in this order, message_history to c only, user_joined to the
\* whole room (c and every registered member of R among the receivers),
\* users_list to the same receivers with c in the list, and join_success to c
\* only, with usersCount the number of users registered in R, c included; the
\* join notice is no entry of R's history.
C10_JoinEmitsInOrder ==
    Joined =>
        LET c == last.socket
            R == JoinRoomOf(last.data)
        IN  /\ c \in DOMAIN users
            /\ users[c] = [username |-> sanitizeInput(Prop(last.data, "username")),
                           room |-> R, socketId |-> c]
            /\ emitted[1].event = "message_history"
            /\ emitted[1].to = {c}
            /\ emitted[1].payload = GetOrEmpty(messageHistory, R)
            /\ \A i \in 1..Len(emitted[1].payload) : emitted[1].payload[i].type = "user"
            /\ emitted[2].event = "user_joined"
            /\ emitted[2].payload.type = "system"
            /\ emitted[2].payload.room = R
            /\ emitted[2].to = Recipients(status, channels, R)
            /\ RegisteredIn(R) \subseteq emitted[2].to
            /\ c \in emitted[2].to
            /\ emitted[3].event = "users_list"
            /\ emitted[3].to = emitted[2].to
            /\ [username |-> users[c].username, socketId |-> c] \in emitted[3].payload
            /\ {u.socketId : u \in emitted[3].payload} = RegisteredIn(R)
            /\ emitted[4].event = "join_success"
            /\ emitted[4].to = {c}
            /\ emitted[4].payload.username = users[c].username
            /\ emitted[4].payload.room = R
            /\ emitted[4].payload.usersCount = Cardinality(RegisteredIn(R))

\* c2 joined tech, where c1 is registered and a message is in the history.
C10_Witness ==
    /\ Joined
    /\ last.socket = c2
    /\ RegisteredIn(Tech) = {c1, c2}
    /\ Len(emitted[1].payload) = 1
    /\ emitted[2].to = {c1, c2}
    /\ emitted[4].payload.usersCount = 2

\* ------------------------------------------------------------------------
\* The chat specification: two sockets join, change rooms, leave and send
\* several chat messages
\* ------------------------------------------------------------------------
ChatCount == Len(admitted[c1]) + Len(admitted[c2])

NextChat ==
    \/ \E s \in Sockets : Connect(s)
    \/ Join(c1, [username |-> Al, room |-> Tech])
    \/ Join(c2, [username |-> Bo, room |-> Tech])
    \/ \E s \in Sockets :
          ChatCount < MaxChatMsgs /\ ChatMessage(s, [message |-> Lt], 0)
    \/ \E s \in Sockets, data \in {[room |-> Tech], [room |-> General]} :
          ChangeRoom(s, data)

SpecChat == Init /\ [][NextChat]_vars

\* ------------------------------------------------------------------------
\* C6
\* ------------------------------------------------------------------------
IsSuffix(a, b) ==
    /\ Len(a) <= Len(b)
    /\ SubSeq(b, Len(b) - Len(a) + 1, Len(b)) = a

OfRoom(log, room) == SelectSeq(log, LAMBDA m : m.room = room)

\* C6: for every room R, what a registered member of R has received as
\* received_message for R since it entered is the tail of what was appended
\* to R's history, in the same order (and of R's history itself while nothing
\* was evicted); so of two members of R, the one that entered later has
\* received exactly the tail of what the other has received.
C6_SameOrderForAllMembers ==
    \A R \in {General, Tech} :
        /\ \A s \in RegisteredIn(R) :
              /\ IsSuffix(OfRoom(received[s], R), GetOrEmpty(appended, R))
              /\ Len(GetOrEmpty(appended, R)) <= HistoryCap
                    => IsSuffix(OfRoom(received[s], R),
                                GetOrEmpty(messageHistory, R))
        /\ \A s \in RegisteredIn(R) : \A t \in RegisteredIn(R) :
              \/ IsSuffix(OfRoom(received[s], R), OfRoom(received[t], R))
              \/ IsSuffix(OfRoom(received[t], R), OfRoom(received[s], R))

\* Both sockets are in tech; c1 has received three messages of the two
\* senders, c2, which entered later, the last two.
C6_Witness ==
    /\ RegisteredIn(Tech) = {c1, c2}
    /\ Len(OfRoom(received[c1], Tech)) = 3
    /\ Len(OfRoom(received[c2], Tech)) = 2
    /\ received[c1][2].socketId # received[c1][3].socketId
    /\ received[c1][1].socketId = c1

\* ------------------------------------------------------------------------
\* The replay specification: the server has run for a while.  A former
\* socket (c3, closed since) registered as bo in general, sent PrefillLen
\* chat messages there, one per second, and disconnected; c1 and c2 then
\* connect, join, send chat messages and change rooms.
\* ------------------------------------------------------------------------
OldMessage(i) ==
    [type |-> "user", username |-> Bo, message |-> sanitizeInput(Lt),
     timestamp |-> i * 1000, room |-> General, socketId |-> c3]

InitReplay ==
    /\ users = EmptyMap
    /\ messageHistory = Put(EmptyMap, General, [i \in 1..PrefillLen |-> OldMessage(i)])
    /\ rateLimitMap = EmptyMap
    /\ status = [s \in SocketIds |-> IF s = c3 THEN "closed" ELSE "idle"]
    /\ channels = [s \in SocketIds |-> {}]
    /\ now = PrefillLen * 1000
    /\ crashed = FALSE
    /\ emitted = << Emit("user_left", {},
                         SystemMessage("a quitte le chat", Bo, PrefillLen * 1000, General)),
                    Emit("users_list", {}, {}) >>
    /\ last = Event("disconnect", c3, Missing)
    /\ appended = Put(EmptyMap, General, [i \in 1..PrefillLen |-> OldMessage(i)])
    /\ received = [s \in SocketIds |-> <<>>]
    /\ admitted = [s \in SocketIds |->
                      IF s = c3
                      THEN [i \in 1..PrefillLen |-> [time |-> i * 1000, kind |-> "chat"]]
                      ELSE <<>>]

NextReplay ==
    \/ \E s \in Sockets : Connect(s)
    \/ Join(c1, [username |-> Al, room |-> General])
    \/ Join(c2, [username |-> Bo, room |-> Tech])
    \/ \E s \in Sockets :
          ChatCount < MaxReplayMsgs /\ ChatMessage(s, [message |-> Lt], 0)
    \/ \E s \in Sockets, data \in {[room |-> Tech], [room |-> General]} :
          ChangeRoom(s, data)

SpecReplay == InitReplay /\ [][NextReplay]_vars

\* ------------------------------------------------------------------------
\* C2
\* ------------------------------------------------------------------------
\* The last n elements of a sequence (all of it when it has fewer).
LastN(a, n) == SubSeq(a, IF Len(a) > n THEN Len(a) - n + 1 ELSE 1, Len(a))

\* C2: the history returned for a room never holds more than HistoryCap
\* messages and is exactly the last min(HistoryCap, n) of the n messages
\* appended to the room, in the order they were appended; it is empty for a
\* room nothing was appended to.
C2_HistoryIsLastHundred ==
    \A R \in {General, Tech} \cup SocketIds :
        LET history == getMessageHistory(messageHistory, R)
            all == GetOrEmpty(appended, R)
        IN  /\ Len(history) <= HistoryCap
            /\ Len(history) = (IF Len(all) < HistoryCap THEN Len(all) ELSE HistoryCap)
            /\ history = LastN(all, HistoryCap)
            /\ (R \notin DOMAIN appended) => history = <<>>

\* More than HistoryCap messages were appended to general: the oldest is gone.
C2_Witness ==
    /\ Len(GetOrEmpty(appended, General)) > HistoryCap
    /\ Len(getMessageHistory(messageHistory, General)) = HistoryCap
    /\ getMessageHistory(messageHistory, General)[1] # appended[General][1]
    /\ getMessageHistory(messageHistory, General)[HistoryCap].socketId \in Sockets
    /\ getMessageHistory(messageHistory, Tech) # <<>>

\* ------------------------------------------------------------------------
\* C9
\* ------------------------------------------------------------------------
\* The last step took last.socket into a room (a join or a change of room
\* that succeeded); the room, and the message_history it was sent.
Entered == Joined \/ RoomChanged

EnteredRoom == users[last.socket].room

ReplayedHistory == IF Joined THEN emitted[1].payload ELSE emitted[3].payload

\* C9 as claimed: every message admitted in room R is in the
\* message_history sent to a socket that later joins or switches into R,
\* and that history is in append order.
C9_AdmittedMessageAlwaysReplayed ==
    Entered =>
        LET all == GetOrEmpty(appended, EnteredRoom)
        IN  /\ \A i \in 1..Len(all) :
                  \E j \in 1..Len(ReplayedHistory) : ReplayedHistory[j] = all[i]
            /\ IsSuffix(ReplayedHistory, all)

\* C9 as amended: a message admitted by chat_message is stored in the history
\* of the sender's room with the sanitized text of the payload, and the
\* message_history sent to a socket that joins or switches into R is the last
\* min(HistoryCap, n) of the n messages admitted in R, in append order: a
\* message is replayed until HistoryCap later messages of R have evicted it.
C9_AdmittedMessageReplayedUntilEvicted ==
    /\ [](Entered =>
            /\ emitted[IF Joined THEN 1 ELSE 3].event = "message_history"
            /\ emitted[IF Joined THEN 1 ELSE 3].to = {last.socket}
            /\ ReplayedHistory = LastN(GetOrEmpty(appended, EnteredRoom), HistoryCap))
    /\ [][(last'.handler = "chat_message" /\ admitted' # admitted)
            => LET R == users[last'.socket].room
                   h == messageHistory'[R]
               IN  /\ h[Len(h)].message = sanitizeInput(Prop(last'.data, "message"))
                   /\ h[Len(h)].room = R
                   /\ appended'[R] = Append(GetOrEmpty(appended, R), h[Len(h)])
                   /\ \A Q \in DOMAIN appended' \ {R} :
                         Q \in DOMAIN appended /\ appended'[Q] = appended[Q]]_vars

\* c1 joined general after HistoryCap + 1 messages were admitted there: it is
\* sent the last HistoryCap, the newest being c2's "<" stored as "&lt;".
C9_Witness ==
    /\ Joined
    /\ last.socket = c1
    /\ EnteredRoom = General
    /\ Len(GetOrEmpty(appended, General)) = HistoryCap + 1
    /\ Len(ReplayedHistory) = HistoryCap
    /\ ReplayedHistory[HistoryCap].socketId = c2
    /\ ReplayedHistory[HistoryCap].message = <<"&", "l", "t", ";">>

\* ------------------------------------------------------------------------
\* C11
\* ------------------------------------------------------------------------
\* The messages of socket s admitted less than RATE_LIMIT_WINDOW ms before t.
AdmittedInWindow(s, t) ==
    SelectSeq(admitted[s], LAMBDA a : t - a.time < RATE_LIMIT_WINDOW)

\* C11: a chat_message from a registered socket that has RATE_LIMIT_MAX
\* admitted messages inside the window emits exactly one error, to the sender
\* only, and changes nothing: no history, no registry, no transport room, no
\* admitted message, and the rate window stored for the socket is the same.
C11_RateLimitedChatHasNoEffect ==
    [][(/\ last'.handler = "chat_message"
        /\ last'.socket \in DOMAIN users
        /\ Len(AdmittedInWindow(last'.socket, now)) >= RATE_LIMIT_MAX)
        => (/\ emitted' = RateLimitError(last'.socket)
            /\ UNCHANGED <<users, messageHistory, rateLimitMap, status, channels,
                           now, appended, received, admitted>>)]_vars

\* c1 has ten admitted messages inside the window, its window holds the ten
\* timestamps, and the chat message it sent then was refused.
C11_Witness ==
    /\ last.handler = "chat_message"
    /\ last.socket = c1
    /\ c1 \in DOMAIN users
    /\ emitted = RateLimitError(c1)
    /\ Len(AdmittedInWindow(c1, now)) = RATE_LIMIT_MAX
    /\ Len(rateLimitMap[c1]) = RATE_LIMIT_MAX
    /\ messageHistory # EmptyMap

\* ------------------------------------------------------------------------
\* C12
\* ------------------------------------------------------------------------
NameTooShortError(socket) ==
    EmitError(socket, "Le nom d'utilisateur doit contenir au moins 2 caracteres")

\* C12: a join from a socket that is not registered, whose sanitized username
\* has fewer than MinUsernameLen characters or is held by a registered user of
\* the target room, emits one error to that socket only (the length is checked
\* first), leaves the socket unregistered and changes neither the registry nor
\* any socket's transport rooms, nor anything else that is stored.
C12_RejectedJoinChangesNothing ==
    [][\A s \in SocketIds :
        (/\ last'.handler = "join"
         /\ last'.socket = s
         /\ last'.data # Missing
         /\ s \notin DOMAIN users)
        => LET username == sanitizeInput(Prop(last'.data, "username"))
               room == JoinRoomOf(last'.data)
               short == Len(username) < MinUsernameLen
               taken == \E t \in DOMAIN users :
                           users[t].username = username /\ users[t].room = room
           IN  (short \/ taken)
                 => /\ emitted' = (IF short THEN NameTooShortError(s)
                                   ELSE NameTakenError(s))
                    /\ s \notin DOMAIN users'
                    /\ UNCHANGED <<users, channels, messageHistory, rateLimitMap,
                                   status, received>>]_vars

\* c2, not registered, asked to join tech, where c1 is registered, under a
\* one-character name: it got the error and is in no room but its own.
C12_Witness ==
    /\ last = Event("join", c2, [username |-> <<"a">>, room |-> Tech])
    /\ emitted = NameTooShortError(c2)
    /\ c2 \notin DOMAIN users
    /\ channels[c2] = {c2}
    /\ status[c2] = "open"
    /\ RegisteredIn(Tech) = {c1}

\* ------------------------------------------------------------------------
\* The private-message specification: three sockets join (c3 possibly a
\* room that has the name of c2's socket id, which every users_list c2 is in
\* discloses), send private messages to any socket id and disconnect
\* ------------------------------------------------------------------------
PrivateTargets ==
    { [message |-> Lt] } \cup { [message |-> Lt, targetSocketId |-> t] : t \in SocketIds }

NextPrivate ==
    \/ \E s \in SocketIds : Connect(s)
    \/ Join(c1, [username |-> Al, room |-> Tech])
    \/ Join(c2, [username |-> Bo])
    \/ \E room \in {Tech, c2} : Join(c3, [username |-> Bo, room |-> room])
    \/ \E s \in SocketIds, data \in PrivateTargets :
          AdmittedCount < MaxPrivateMsgs /\ PrivateMessage(s, data, 0)
    \/ \E s \in SocketIds : Disconnect(s)

SpecPrivate == Init /\ [][NextPrivate]_vars

\* ------------------------------------------------------------------------
\* C13
\* ------------------------------------------------------------------------
\* The last step admitted a private message.
PrivateSent ==
    /\ last.handler = "private_message"
    /\ Len(emitted) = 2

\* C13: an admitted private message from s to t is emitted as
\* private_message_received to t only and as private_message_sent to s only,
\* and no history holds a private message.
C13_PrivateReachesTargetAndSenderOnly ==
    /\ PrivateSent =>
          /\ emitted[1].event = "private_message_received"
          /\ emitted[1].to = {last.data.targetSocketId}
          /\ emitted[2].event = "private_message_sent"
          /\ emitted[2].to = {last.socket}
          /\ emitted[2].payload = emitted[1].payload
    /\ \A R \in DOMAIN messageHistory :
          \A i \in 1..Len(messageHistory[R]) : messageHistory[R][i].type = "user"

\* ------------------------------------------------------------------------
\* C14
\* ------------------------------------------------------------------------
RecipientNotFoundError(socket) == EmitError(socket, "Destinataire introuvable")

\* C14: a private_message from a registered socket s whose targetSocketId is
\* not the id of a registered user (no such socket, a socket that never
\* joined, a socket that has disconnected) emits only the "recipient not
\* found" error to s and changes nothing, the rate window of s included; when
\* the target is registered, in the room of s or in another, and s has fewer
\* than RATE_LIMIT_MAX messages in the window, the message is admitted and
\* delivered to the target.
C14_UnknownTargetIsRefused ==
    [][\A s \in SocketIds :
        (/\ last'.handler = "private_message"
         /\ last'.socket = s
         /\ last'.data # Missing
         /\ s \in DOMAIN users)
        => LET target == Prop(last'.data, "targetSocketId")
           IN  IF \/ target \notin DOMAIN users
                  \/ target \notin SocketIds
                  \/ status[target] # "open"
               THEN /\ emitted' = RecipientNotFoundError(s)
                    /\ UNCHANGED <<users, messageHistory, rateLimitMap, status,
                                   channels, now, appended, received, admitted>>
               ELSE Len(AdmittedInWindow(s, now)) < RATE_LIMIT_MAX
                      => /\ Len(emitted') = 2
                         /\ emitted'[1].event = "private_message_received"
                         /\ target \in emitted'[1].to
                         /\ emitted'[1].payload.toSocketId = target
                         /\ Len(admitted'[s]) = Len(admitted[s]) + 1]_vars

\* c2 was registered, sent a private message and disconnected; c1 then wrote
\* to c2: it got the error, and no rate window was created for c1.
C14_Witness ==
    /\ last = Event("private_message", c1, [message |-> Lt, targetSocketId |-> c2])
    /\ emitted = RecipientNotFoundError(c1)
    /\ c1 \in DOMAIN users
    /\ status[c2] = "closed"
    /\ Len(admitted[c2]) = 1
    /\ c1 \notin DOMAIN rateLimitMap

\* ------------------------------------------------------------------------
\* C15
\* ------------------------------------------------------------------------
\* A payload whose message is no text, or a text of white space only.
NothingToSend(data) ==
    LET message == Prop(data, "message")
    IN  \/ message = NotAString
        \/ \A i \in 1..Len(message) : message[i] \in Whitespace

\* C15: a chat_message from a registered socket s that has fewer than
\* RATE_LIMIT_MAX messages in the window, with a message that is empty once
\* sanitized, emits nothing and leaves the histories and the registry alone;
\* no timestamp is added to the window of s (the window stored is the old one
\* without its expired timestamps), so every stored timestamp is the time of
\* an admitted message.
C15_EmptyMessageIsDropped ==
    /\ [](\A s \in SocketIds : Len(Timestamps(rateLimitMap, s)) <= Len(admitted[s]))
    /\ [][\A s \in SocketIds :
            (/\ last'.handler = "chat_message"
             /\ last'.socket = s
             /\ last'.data # Missing
             /\ s \in DOMAIN users
             /\ Len(AdmittedInWindow(s, now)) < RATE_LIMIT_MAX
             /\ NothingToSend(last'.data))
            => (/\ emitted' = <<>>
                /\ UNCHANGED <<users, messageHistory, status, channels, now,
                               appended, received, admitted>>
                /\ Timestamps(rateLimitMap', s) = RecentTimestamps(rateLimitMap, s, now)
                /\ \A t \in SocketIds \ {s} :
                      Timestamps(rateLimitMap', t) = Timestamps(rateLimitMap, t))]_vars

\* c1 sent a blank message when its earlier messages had left the window:
\* nothing was emitted and its window is empty.
C15_Witness ==
    /\ last = Event("chat_message", c1, [message |-> Blank])
    /\ emitted = <<>>
    /\ c1 \in DOMAIN users
    /\ Len(admitted[c1]) >= 2
    /\ rateLimitMap[c1] = <<>>
    /\ Len(messageHistory[General]) >= 1

\* ------------------------------------------------------------------------
\* C16
\* ------------------------------------------------------------------------
\* The last step was the disconnect of a registered user.
UserLeft ==
    /\ last.handler = "disconnect"
    /\ Len(emitted) = 2

\* C16: when a registered user u of room R disconnects, user_left and then
\* users_list are emitted to exactly the users still registered in R (no
\* socket registered in another room, no unregistered socket receives them),
\* and the list is the users still registered in R, u not among them.
C16_DisconnectNotifiesRoomOnly ==
    UserLeft =>
        LET R == emitted[1].payload.room
        IN  /\ emitted[1].event = "user_left"
            /\ emitted[1].to = RegisteredIn(R)
            /\ emitted[2].event = "users_list"
            /\ emitted[2].to = RegisteredIn(R)
            /\ emitted[2].payload = getUsersInRoom(users, R)
            /\ \A u \in emitted[2].payload : u.socketId # last.socket

\* ------------------------------------------------------------------------
\* C17
\* ------------------------------------------------------------------------
\* C17: a typing event (with a payload) from a registered socket s emits one
\* user_typing to exactly the other users registered in the room of s, not to
\* s and to no socket that is registered in another room or not at all; from
\* an unregistered socket it emits nothing; in both cases the registry, the
\* histories and the rate windows are unchanged.
C17_TypingReachesRoomOnly ==
    /\ [](\A s \in SocketIds :
            (last.handler = "typing" /\ last.socket = s /\ last.data # Missing)
            => IF s \in DOMAIN users
               THEN /\ Len(emitted) = 1
                    /\ emitted[1].event = "user_typing"
                    /\ emitted[1].payload.username = users[s].username
                    /\ emitted[1].to = RegisteredIn(users[s].room) \ {s}
               ELSE emitted = <<>>)
    /\ [][(last'.handler = "typing" /\ last'.data # Missing)
            => UNCHANGED <<users, messageHistory, rateLimitMap>>]_vars

\* ------------------------------------------------------------------------
\* C18
\* ------------------------------------------------------------------------
\* C18: a registered socket is an open socket with one user record, under its
\* own id; it stays registered, with the same record, through every
\* chat_message, private_message, typing, get_users and get_rooms event of
\* any socket and through the change_room of another socket; its own
\* change_room changes only the room of its record; the only step that takes
\* it out of the registry is its own disconnect, and a closed socket stays
\* closed and unregistered.
C18_RegisteredUntilOwnDisconnect ==
    /\ [](\A s \in DOMAIN users :
            /\ s \in SocketIds
            /\ status[s] = "open"
            /\ users[s].socketId = s)
    /\ [][\A s \in DOMAIN users :
            /\ s \notin DOMAIN users'
                  => (/\ last'.handler = "disconnect"
                      /\ last'.socket = s
                      /\ status'[s] = "closed")
            /\ last'.handler \in {"chat_message", "private_message", "typing",
                                  "get_users", "get_rooms"}
                  => (s \in DOMAIN users' /\ users'[s] = users[s])
            /\ last'.handler = "change_room"
                  => /\ s \in DOMAIN users'
                     /\ users'[s].username = users[s].username
                     /\ users'[s].socketId = s
                     /\ s # last'.socket => users'[s] = users[s]]_vars
    /\ [][\A s \in SocketIds :
            status[s] = "closed" => (status'[s] = "closed" /\ s \notin DOMAIN users')]_vars

\* c2, registered, has disconnected; c1, which joined tech as al and had a
\* message admitted, is still registered with that record.
C18_Witness ==
    /\ UserLeft
    /\ last.socket = c2
    /\ status[c2] = "closed"
    /\ c2 \notin DOMAIN users
    /\ c1 \in DOMAIN users
    /\ users[c1] = [username |-> Al, room |-> Tech, socketId |-> c1]
    /\ Len(admitted[c1]) = 1

\* ------------------------------------------------------------------------
\* C19
\* ------------------------------------------------------------------------
\* C19: the history of a room changes only in a chat_message step that
\* admits a message, and then only the history of the sender's room, by that
\* message; join, change_room, disconnect, private_message, typing, get_users
\* and get_rooms leave every history as it is; so the history of a room
\* outlives its members, and a socket that joins the room is sent it.
C19_OnlyChatChangesHistory ==
    /\ [][messageHistory' # messageHistory
            => /\ last'.handler = "chat_message"
               /\ Len(admitted'[last'.socket]) = Len(admitted[last'.socket]) + 1
               /\ LET R == users[last'.socket].room
                  IN  /\ Len(messageHistory'[R]) >= 1
                      /\ messageHistory'[R][Len(messageHistory'[R])].room = R
                      /\ \A Q \in DOMAIN messageHistory' \ {R} :
                            /\ Q \in DOMAIN messageHistory
                            /\ messageHistory'[Q] = messageHistory[Q]]_vars
    /\ [][last'.handler \in {"join", "change_room", "disconnect", "private_message",
                             "typing", "get_users", "get_rooms", "connection"}
            => UNCHANGED messageHistory]_vars
    /\ [](Joined => emitted[1].payload = GetOrEmpty(messageHistory, JoinRoomOf(last.data)))

\* c1 sent a message in tech and disconnected, leaving tech without members;
\* c2 then joined tech and was sent the message.
C19_Witness ==
    /\ Joined
    /\ last.socket = c2
    /\ JoinRoomOf(last.data) = Tech
    /\ RegisteredIn(Tech) = {c2}
    /\ status[c1] = "closed"
    /\ Len(emitted[1].payload) = 1
    /\ emitted[1].payload[1].socketId = c1
    /\ emitted[1].payload = messageHistory[Tech]

\* ------------------------------------------------------------------------
\* The sanitizing specification: one socket sends chat messages whose
\* message is any short text over the characters sanitizeInput treats, a
\* text too long to be kept whole, or no text
\* ------------------------------------------------------------------------
Chars == {"&", "<", ">", "\"", "'", "/", " ", "a"}

Repeat(ch, n) == [i \in 1..n |-> ch]

Script == <<"<", "s", "c", "r", "i", "p", "t", ">">>

ShortTexts == UNION {[1..n -> Chars] : n \in 0..MaxShortLen}

LongTexts ==
    { Repeat("/", 100),
      Repeat("a", MaxTextLen + 1),
      Repeat("a", MaxTextLen - 1) \o <<"<">>,
      <<" ">> \o Repeat("a", MaxTextLen) \o <<" ">>,
      Repeat(" ", MaxTextLen) \o <<"a">> }

SanitizeTexts == ShortTexts \cup LongTexts \cup {Script, NotAString}

NextSanitize ==
    \/ Connect(c1)
    \/ Join(c1, [username |-> Al])
    \/ \E text \in SanitizeTexts :
          /\ ChatCount < MaxSanitizeMsgs
          /\ ChatMessage(c1, [message |-> text], 0)

SpecSanitize == Init /\ [][NextSanitize]_vars

\* ------------------------------------------------------------------------
\* C20
\* ------------------------------------------------------------------------
RawChars == {"<", ">", "\"", "'", "/"}

\* A text that is not empty, not longer than MaxTextLen, without raw characters.
IsClean(text) ==
    /\ Len(text) >= 1
    /\ Len(text) <= MaxTextLen
    /\ \A i \in 1..Len(text) : text[i] \notin RawChars

\* The last step broadcast a chat message.
ChatBroadcast ==
    /\ last.handler = "chat_message"
    /\ Len(emitted) = 1
    /\ emitted[1].event = "received_message"

\* C20: the text of every message in a history, and of every received_message
\* emitted, is not empty, has at most MaxTextLen characters and none of the
\* characters < > " ' and /; the text broadcast is the one stored, the
\* sanitized payload: "<script>" is stored as "&lt;script&gt;" and "&<" as
\* "&amp;&lt;"; a payload whose message is no text is sanitized to the empty
\* text, and nothing is stored or emitted for it.
C20_StoredTextIsSanitized ==
    /\ [](/\ \A R \in DOMAIN messageHistory : \A i \in 1..Len(messageHistory[R]) :
                IsClean(messageHistory[R][i].message)
          /\ ChatBroadcast =>
                LET text == Prop(last.data, "message")
                    stored == emitted[1].payload.message
                    h == messageHistory[emitted[1].payload.room]
                IN  /\ IsClean(stored)
                    /\ h[Len(h)] = emitted[1].payload
                    /\ stored = sanitizeInput(text)
                    /\ text = Script
                          => stored = <<"&", "l", "t", ";", "s", "c", "r", "i", "p", "t",
                                        "&", "g", "t", ";">>
                    /\ text = <<"&", "<">>
                          => stored = <<"&", "a", "m", "p", ";", "&", "l", "t", ";">>
                    /\ text # NotAString
          /\ sanitizeInput(NotAString) = <<>>)
    /\ [][(/\ last'.handler = "chat_message"
           /\ last'.socket \in DOMAIN users
           /\ last'.data # Missing
           /\ Prop(last'.data, "message") = NotAString)
            => (emitted' = <<>> /\ UNCHANGED <<messageHistory, appended, admitted>>)]_vars

\* A text of MaxTextLen - 1 letters and "<" was sent: what is stored and
\* broadcast has MaxTextLen characters, the last one the "&" of the cut "&lt;".
C20_Witness ==
    /\ ChatBroadcast
    /\ last.data.message = Repeat("a", MaxTextLen - 1) \o <<"<">>
    /\ Len(emitted[1].payload.message) = MaxTextLen
    /\ emitted[1].payload.message[MaxTextLen] = "&"
    /\ messageHistory[General][1].message = emitted[1].payload.message

\* ------------------------------------------------------------------------
\* C21
\* ------------------------------------------------------------------------
\* The transport rooms of a socket, the room of its own id apart.
JoinedChannels(s) == channels[s] \ {s}

\* C21: every registered socket is in exactly one transport room (the room
\* of its own id apart), the room of its user record.
C21_OneTransportRoomPerUser ==
    \A s \in DOMAIN users : JoinedChannels(s) = {users[s].room}

\* ------------------------------------------------------------------------
\* C22
\* ------------------------------------------------------------------------
\* The messages of socket s admitted not more than RATE_LIMIT_WINDOW ms before t.
AdmittedNotOlder(s, t) ==
    SelectSeq(admitted[s], LAMBDA a : t - a.time <= RATE_LIMIT_WINDOW)

\* The step handles a message of s that is admitted unless s is rate-limited:
\* a chat message with a text, or a private message to a registered user.
Sendable(s, event) ==
    /\ event.socket = s
    /\ s \in DOMAIN users
    /\ event.data # Missing
    /\ \/ event.handler = "chat_message" /\ ~NothingToSend(event.data)
       \/ /\ event.handler = "private_message"
          /\ Prop(event.data, "targetSocketId") \in DOMAIN users

\* C22: a message of a registered socket is admitted whenever fewer than
\* RATE_LIMIT_MAX of the socket's admitted messages are not older than
\* RATE_LIMIT_WINDOW ms, whether or not the socket was refused before; and
\* a socket whose admitted messages are all RATE_LIMIT_WINDOW ms old or older
\* is never answered with the rate-limit error.
C22_WindowRecovers ==
    [][\A s \in SocketIds :
        /\ (Sendable(s, last') /\ Len(AdmittedNotOlder(s, now)) < RATE_LIMIT_MAX)
              => /\ Len(admitted'[s]) = Len(admitted[s]) + 1
                 /\ emitted' # RateLimitError(s)
                 /\ Len(Timestamps(rateLimitMap', s)) <= RATE_LIMIT_MAX
        /\ (/\ last'.handler \in {"chat_message", "private_message"}
            /\ last'.socket = s
            /\ \A i \in 1..Len(admitted[s]) : now - admitted[s][i].time >= RATE_LIMIT_WINDOW)
              => emitted' # RateLimitError(s)]_vars

\* c1 had RATE_LIMIT_MAX messages admitted at time 0; RATE_LIMIT_WINDOW ms
\* later its chat message is admitted, and its window holds that message only.
C22_Witness ==
    /\ ChatBroadcast
    /\ last.socket = c1
    /\ Len(admitted[c1]) = RATE_LIMIT_MAX + 1
    /\ admitted[c1][RATE_LIMIT_MAX].time = 0
    /\ now = RATE_LIMIT_WINDOW
    /\ rateLimitMap[c1] = <<RATE_LIMIT_WINDOW>>

\* ------------------------------------------------------------------------
\* C23
\* ------------------------------------------------------------------------
\* C23: the window stored for a socket never holds more than RATE_LIMIT_MAX
\* timestamps, and they are in non-decreasing order.
C23_WindowBoundedAndOrdered ==
    \A s \in DOMAIN rateLimitMap :
        /\ Len(rateLimitMap[s]) <= RATE_LIMIT_MAX
        /\ \A i \in 1..Len(rateLimitMap[s]) : \A j \in 1..Len(rateLimitMap[s]) :
              i <= j => rateLimitMap[s][i] <= rateLimitMap[s][j]

\* The window of c1 is full, with timestamps of two different times, one of
\* them of a private message, and the chat message c1 sent then was refused.
C23_Witness ==
    /\ last.handler = "chat_message"
    /\ emitted = RateLimitError(c1)
    /\ Len(rateLimitMap[c1]) = RATE_LIMIT_MAX
    /\ rateLimitMap[c1][1] < rateLimitMap[c1][RATE_LIMIT_MAX]
    /\ PrivateCount(c1) = 1

\* ------------------------------------------------------------------------
\* C24
\* ------------------------------------------------------------------------
MustJoinError(socket) == EmitError(socket, "Vous devez d'abord rejoindre un salon")

\* C24: only registered sockets have a rate window, and a closed socket has
\* none; a chat_message or private_message from a socket that is not
\* registered emits the "join first" error to it and creates no window (the
\* rate limiter is left as it is, like the registry and the histories).
C24_WindowOnlyForRegistered ==
    /\ [](/\ DOMAIN rateLimitMap \subseteq DOMAIN users
          /\ \A s \in SocketIds : status[s] # "open" => s \notin DOMAIN rateLimitMap)
    /\ [][\A s \in SocketIds :
            (/\ last'.handler \in {"chat_message", "private_message"}
             /\ last'.socket = s
             /\ s \notin DOMAIN users)
            => (/\ emitted' = MustJoinError(s)
                /\ s \notin DOMAIN rateLimitMap'
                /\ UNCHANGED <<rateLimitMap, users, messageHistory, admitted>>)]_vars

\* c1, open and not registered, sent a chat message and got the error; the
\* only window is the one of c2, which is registered and has sent a blank
\* message (that created its window, without a timestamp).
C24_Witness ==
    /\ last.handler = "chat_message"
    /\ last.socket = c1
    /\ status[c1] = "open"
    /\ c1 \notin DOMAIN users
    /\ emitted = MustJoinError(c1)
    /\ DOMAIN rateLimitMap = {c2}
    /\ c2 \in DOMAIN users
    /\ rateLimitMap[c2] = <<>>

=============================================================================
